---- MODULE Spec2Model ----
(***************************************************************************)
(* State-machine model of app/routes/home.tsx of fs-webp-converter: the    *)
(* directory scan -> permission -> per-file conversion -> write-back       *)
(* pipeline of the Home component.                                         *)
(*                                                                         *)
(* One step of the model is one synchronous run of a handler: from the     *)
(* resolution of the promise it awaits up to its next await.  Every        *)
(* setState call of such a run is part of the step.  The file system, the  *)
(* permission state, the decode/encode primitives and the user are the     *)
(* environment; their answers are chosen nondeterministically.             *)
(*                                                                         *)
(* File names are sequences of one-character strings so that the suffix    *)
(* helpers are computed as the code computes them.                         *)
(***************************************************************************)
EXTENDS Integers, Sequences, FiniteSets, TLC

\* ------------------------------------------------------------------ bounds

\* Largest number of children of the chosen directory in an initial state.
MaxFiles == 2

\* appendLog keeps the most recent MaxLogs entries.
MaxLogs == 20

\* Number of appendLog calls followed from a log that is empty or nearly full.
MaxAppends == 2

\* The handler activations of one behaviour, in the order the user triggers
\* them: every click on a button starts the next one.
Activations == <<"h1", "h2", "h3">>

Procs == {Activations[k] : k \in 1..Len(Activations)}

\* ------------------------------------------------------------- file names

Lower ==
  [c \in {"P", "N", "G", "W", "E", "B"} |->
     CASE c = "P" -> "p" [] c = "N" -> "n" [] c = "G" -> "g"
       [] c = "W" -> "w" [] c = "E" -> "e" [] OTHER -> "b"]

toLowerCaseChar(c) == IF c \in DOMAIN Lower THEN Lower[c] ELSE c

toLowerCase(s) == [k \in 1..Len(s) |-> toLowerCaseChar(s[k])]

endsWith(s, suffix) ==
  /\ Len(s) >= Len(suffix)
  /\ SubSeq(s, Len(s) - Len(suffix) + 1, Len(s)) = suffix

hasExtension(name, extension) == endsWith(toLowerCase(name), extension)

\* String.prototype.indexOf("."), 0-based: the first dot.
indexOfDot(s) ==
  LET dots == {k \in 1..Len(s) : s[k] = "."}
  IN  IF dots = {} THEN -1
      ELSE (CHOOSE k \in dots : \A j \in dots : k <= j) - 1

\* String.prototype.lastIndexOf("."), 0-based; -1 when there is no dot.
lastIndexOfDot(s) ==
  LET dots == {k \in 1..Len(s) : s[k] = "."}
  IN  IF dots = {} THEN -1
      ELSE (CHOOSE k \in dots : \A j \in dots : j <= k) - 1

\* The target is written under the name of the source.
sameName(fileName, nextExtension) == fileName

replaceExtension(fileName, nextExtension) ==
  LET index == lastIndexOfDot(fileName)
  IN  IF index = -1 THEN fileName \o nextExtension
      ELSE SubSeq(fileName, 1, index) \o nextExtension

\* Collation weight of a character: punctuation before letters, letters in
\* alphabetical order whatever their case.
Primary(c) ==
  LET l == toLowerCaseChar(c)
  IN  CASE l = "." -> 0 [] l = "a" -> 1 [] l = "b" -> 2 [] l = "c" -> 3
        [] l = "e" -> 5 [] l = "g" -> 7 [] l = "j" -> 10 [] l = "m" -> 13 [] l = "n" -> 14
        [] l = "p" -> 16 [] l = "s" -> 19 [] l = "t" -> 20 [] l = "u" -> 21
        [] l = "w" -> 23 [] l = "x" -> 24 [] OTHER -> 30

\* Third-level weight: a lower-case letter sorts before its upper-case form.
Tertiary(c) == IF c \in DOMAIN Lower THEN 1 ELSE 0

RECURSIVE compareBy(_, _, _, _)
compareBy(a, b, k, upper) ==
  IF k > Len(a) /\ k > Len(b) THEN 0
  ELSE IF k > Len(a) THEN -1
  ELSE IF k > Len(b) THEN 1
  ELSE LET x == IF upper THEN Tertiary(a[k]) ELSE Primary(a[k])
           y == IF upper THEN Tertiary(b[k]) ELSE Primary(b[k])
       IN  IF x < y THEN -1 ELSE IF x > y THEN 1 ELSE compareBy(a, b, k + 1, upper)

\* String.prototype.localeCompare of the names of the model's alphabet.
localeCompare(a, b) ==
  LET first == compareBy(a, b, 1, FALSE)
  IN  IF first # 0 THEN first ELSE compareBy(a, b, 1, TRUE)

\* Array.prototype.sort with the comparator of collectImageEntries: a stable
\* insertion of every element into the sorted prefix.
RECURSIVE insertSorted(_, _)
insertSorted(sorted, e) ==
  IF sorted = <<>> THEN <<e>>
  ELSE IF localeCompare(e.name, sorted[Len(sorted)].name) >= 0 THEN Append(sorted, e)
  ELSE Append(insertSorted(SubSeq(sorted, 1, Len(sorted) - 1), e), sorted[Len(sorted)])

RECURSIVE sortByName(_)
sortByName(items) ==
  IF items = <<>> THEN <<>>
  ELSE insertSorted(sortByName(SubSeq(items, 1, Len(items) - 1)), items[Len(items)])

\* ---------------------------------------------------------- configuration

PNG_EXT == <<".", "p", "n", "g">>

WEBP_EXT == <<".", "w", "e", "b", "p">>

SUPPORTED_MIME_TYPES == {"image/png", "image/webp"}

ConversionDirection == {"png-to-webp", "webp-to-png"}

DIRECTION_CONFIG ==
  [d \in ConversionDirection |->
     IF d = "png-to-webp"
     THEN [sourceExt |-> PNG_EXT, targetExt |-> WEBP_EXT, mime |-> "image/webp"]
     ELSE [sourceExt |-> WEBP_EXT, targetExt |-> PNG_EXT, mime |-> "image/png"]]

PermissionState == {"granted", "denied", "prompt"}

\* ------------------------------------------------------------ environment

\* What a directory may hold when it is picked, in the order the platform
\* enumerates it (not the sorted order): a decodable WebP, a subdirectory, a
\* decodable PNG with an upper-case suffix, a file named like a PNG whose
\* declared type is not an image type, and a corrupt PNG.
Candidates ==
  << [name |-> <<"c", ".", "w", "e", "b", "p">>, kind |-> "file", type |-> "image/webp",
      valid |-> TRUE, width |-> 2, height |-> 1],
     [name |-> <<"s", "u", "b">>, kind |-> "directory", type |-> "",
      valid |-> FALSE, width |-> 0, height |-> 0],
     [name |-> <<"b", ".", "P", "N", "G">>, kind |-> "file", type |-> "image/png",
      valid |-> TRUE, width |-> 1, height |-> 2],
     [name |-> <<"m", ".", "p", "n", "g">>, kind |-> "file", type |-> "text/plain",
      valid |-> FALSE, width |-> 0, height |-> 0],
     [name |-> <<"a", ".", "p", "n", "g">>, kind |-> "file", type |-> "image/png",
      valid |-> FALSE, width |-> 0, height |-> 0] >>

\* The children chosen by `picked`, a set of positions of Candidates.
RECURSIVE Children(_, _)
Children(picked, k) ==
  IF k > Len(Candidates) THEN <<>>
  ELSE (IF k \in picked THEN <<Candidates[k]>> ELSE <<>>) \o Children(picked, k + 1)

\* The directories of at most n children.
Directories(n) ==
  { Children(picked, 1) :
      picked \in {x \in SUBSET (1..Len(Candidates)) : Cardinality(x) <= n} }

\* The declared type the platform gives a file it creates, from its suffix.
TypeOfName(name) ==
  IF hasExtension(name, PNG_EXT) THEN "image/png"
  ELSE IF hasExtension(name, WEBP_EXT) THEN "image/webp"
  ELSE ""

IndexOfName(d, name) ==
  IF \E k \in 1..Len(d) : d[k].name = name
  THEN CHOOSE k \in 1..Len(d) : d[k].name = name
  ELSE 0

\* The platforms: which of the optional methods the code probes for exist
\* (queryPermission, requestPermission, createImageBitmap).
Platforms ==
  { [query |-> TRUE, request |-> TRUE, bitmap |-> TRUE],
    [query |-> TRUE, request |-> FALSE, bitmap |-> TRUE],
    [query |-> FALSE, request |-> TRUE, bitmap |-> FALSE],
    [query |-> FALSE, request |-> FALSE, bitmap |-> FALSE] }

\* ------------------------------------------------------------------ state

VARIABLES
  directoryHandle,  \* useState: 0 (null) or the identity of the picked handle
  images,           \* useState: the inventory, a sequence of ImageEntry
  status,           \* useState: the status line
  logs,             \* useState: the conversion log, newest first
  appended,         \* history: the entries appended since the log was last reset
  isScanning,       \* useState
  isConverting,     \* useState
  disk,             \* the children of the directory, in enumeration order
  caps,             \* which optional platform methods exist
  proc,             \* the handler activations: position and locals
  hist,             \* history of each activation (what it has done so far)
  call              \* a call of a module-level helper: arguments and result

vars == <<directoryHandle, images, status, logs, appended, isScanning,
          isConverting, disk, caps, proc, hist, call>>

NoHandle == 0

\* No helper is being called on its own.
NoCall ==
  [fn |-> "none", returned |-> FALSE, children |-> <<>>, entries |-> <<>>,
   fileName |-> <<>>, direction |-> "png-to-webp", matched |-> FALSE,
   newName |-> <<>>]

Status(tag) == [tag |-> tag, name |-> <<>>, count |-> 0]

StatusOf(tag, name, count) == [tag |-> tag, name |-> name, count |-> count]

IdleProc ==
  [pc |-> "idle", kind |-> "none", handle |-> NoHandle, mode |-> "read",
   direction |-> "png-to-webp", targets |-> <<>>, i |-> 0,
   file |-> <<>>, source |-> <<>>, blob |-> <<>>, newName |-> <<>>]

NoEnsure ==
  [mode |-> "read", hasApi |-> FALSE, queried |-> "none", answer |-> "none",
   requests |-> 0, result |-> "pending"]

NoResult ==
  [entry |-> 0, success |-> FALSE, complete |-> FALSE, produced |-> FALSE,
   cleanups |-> 0, steps |-> {}]

InitHist ==
  [kind |-> "none", direction |-> "png-to-webp", outcome |-> "none",
   matched |-> <<>>, started |-> 0,
   steps |-> {}, produced |-> FALSE, cleanups |-> 0, last |-> NoResult,
   okLogs |-> 0, failLogs |-> 0, touched |-> {}, written |-> {},
   asked |-> {}, granted |-> {},
   scans |-> 0, scanAt |-> 0, setConverting |-> FALSE, said |-> {},
   ens |-> NoEnsure, logsBefore |-> 0]

Init ==
  /\ directoryHandle = NoHandle
  /\ images = <<>>
  /\ status = Status("none")
  /\ logs = <<>>
  /\ appended = <<>>
  /\ isScanning = FALSE
  /\ isConverting = FALSE
  /\ disk \in Directories(MaxFiles)
  /\ caps \in Platforms
  /\ proc = [p \in Procs |-> IdleProc]
  /\ hist = [p \in Procs |-> InitHist]
  /\ call = NoCall

\* The header's counters of the inventory.
pngCount == Cardinality({k \in 1..Len(images) : hasExtension(images[k].name, PNG_EXT)})

webpCount == Cardinality({k \in 1..Len(images) : hasExtension(images[k].name, WEBP_EXT)})

\* ------------------------------------------ synchronous runs of a handler

\* The record of the entry an activation logged last and of the
\* ensurePermission call that returned last describe the step just taken
\* only: the next step of any activation clears them.
Settled(h) ==
  [h EXCEPT !.last = NoResult,
            !.ens = IF @.result = "pending" THEN @ ELSE NoEnsure]

\* The history of an activation that has returned is kept until another
\* activation takes a step.  The histories record what happened; no guard and
\* no assignment to the program's state reads them.

\* The React state and the activation p as one record; a synchronous run of
\* code maps such a record to the next one.
Cur(p) ==
  [directoryHandle |-> directoryHandle, images |-> images, status |-> status,
   logs |-> logs, appended |-> appended, isScanning |-> isScanning,
   isConverting |-> isConverting, pr |-> proc[p], hi |-> Settled(hist[p])]

Apply(p, run) ==
  \E m \in {run} :
    /\ directoryHandle' = m.directoryHandle
    /\ images' = m.images
    /\ status' = m.status
    /\ logs' = m.logs
    /\ appended' = m.appended
    /\ isScanning' = m.isScanning
    /\ isConverting' = m.isConverting
    /\ proc' = [proc EXCEPT ![p] = m.pr]
    /\ hist' = [q \in Procs |->
                 IF q = p THEN m.hi
                 ELSE IF proc[q].pc = "returned" THEN InitHist
                 ELSE Settled(hist[q])]

setStatus(m, s) == [m EXCEPT !.status = s, !.hi.said = @ \cup {s.tag}]

Min(a, b) == IF a < b THEN a ELSE b

\* A log that keeps every entry, the newest last.
appendLogAtEnd(m, entry) ==
  [m EXCEPT !.logs = Append(@, entry), !.appended = Append(@, entry)]

\* setLogs((prev) => [entry, ...prev].slice(0, 20))
appendLog(m, entry) ==
  [m EXCEPT !.logs = SubSeq(<<entry>> \o @, 1, Min(Len(@) + 1, MaxLogs)),
            !.appended = Append(@, entry)]

\* The handler returns: its locals are gone.
Return(m) == [m EXCEPT !.pr = [IdleProc EXCEPT !.pc = "returned"]]

\* A refreshDirectory that empties the inventory when reading is refused.
RefreshClearsOnDenial(m, granted) ==
  IF ~granted
  THEN Return([setStatus(m, Status("readDenied")) EXCEPT !.isScanning = FALSE,
                                                         !.images = <<>>])
  ELSE [m EXCEPT !.pr.pc = "collectImageEntries"]

\* refreshDirectory after `await ensurePermission(handle, "read")`.
RefreshAfterPermission(m, granted) ==
  IF ~granted
  THEN Return([setStatus(m, Status("readDenied")) EXCEPT !.isScanning = FALSE])
  ELSE [m EXCEPT !.pr.pc = "collectImageEntries"]

\* The head of the for loop of handleConversion for the k-th target, up to
\* `await candidate.handle.getFile()`.
StartEntry(m, k) ==
  LET candidate == m.pr.targets[k]
  IN  [setStatus(m, StatusOf("converting", candidate.name, 0))
         EXCEPT !.pr.i = k, !.pr.pc = "getFile",
                !.pr.file = <<>>, !.pr.source = <<>>, !.pr.blob = <<>>,
                !.pr.newName = <<>>,
                !.hi.started = k,
                !.hi.steps = {}, !.hi.produced = FALSE, !.hi.cleanups = 0,
                !.hi.touched = @ \cup {"getFile"}]

RECURSIVE refreshDirectory(_, _)

\* A batch that skips the scan after its loop.
FinishWithoutScan(m) ==
  Return([setStatus(m, Status("completed")) EXCEPT !.isConverting = FALSE,
                                                   !.hi.outcome = "completed"])

\* handleConversion after the for loop.
FinishBatch(m) ==
  refreshDirectory(
    [setStatus(m, Status("completed")) EXCEPT !.isConverting = FALSE,
                                              !.hi.outcome = "completed"],
    NoHandle)

\* `for (const candidate of targets)`: the k-th iteration, or the end of the
\* loop.
ForLoop(m, k) ==
  IF k <= Len(m.pr.targets) THEN StartEntry(m, k) ELSE FinishBatch(m)

NextEntry(m) == ForLoop(m, m.pr.i + 1)

\* A handler that goes on whatever ensurePermission returned.
ConversionIgnoringDenial(m, granted) ==
  ForLoop(
    setStatus([m EXCEPT !.isConverting = TRUE, !.hi.setConverting = TRUE,
                        !.hi.outcome = "processing"],
              StatusOf("running", <<>>, Len(m.pr.targets))),
    1)

\* handleConversion after `await ensurePermission(directoryHandle, "readwrite")`.
ConversionAfterPermission(m, granted) ==
  IF ~granted
  THEN Return([setStatus(m, Status("writeDenied")) EXCEPT !.hi.outcome = "denied"])
  ELSE ForLoop(
         setStatus([m EXCEPT !.isConverting = TRUE, !.hi.setConverting = TRUE,
                             !.hi.outcome = "processing"],
                   StatusOf("running", <<>>, Len(m.pr.targets))),
         1)

\* A handler that goes on whatever ensurePermission returned.
EnsureResultIgnored(m, r) ==
  LET m1 == [m EXCEPT !.hi.ens.result = IF r THEN "true" ELSE "false",
                      !.hi.granted = IF r THEN @ \cup {m.pr.mode} ELSE @]
  IN  IF m.pr.mode = "read"
      THEN RefreshAfterPermission(m1, TRUE)
      ELSE ConversionAfterPermission(m1, TRUE)

\* ensurePermission returns r to the handler that awaits it.
EnsureReturn(m, r) ==
  LET m1 == [m EXCEPT !.hi.ens.result = IF r THEN "true" ELSE "false",
                      !.hi.granted = IF r THEN @ \cup {m.pr.mode} ELSE @]
  IN  IF m.pr.mode = "read"
      THEN RefreshAfterPermission(m1, r)
      ELSE ConversionAfterPermission(m1, r)

\* The catch and finally blocks of refreshDirectory: the status is the
\* message of the error.
RefreshCatch(m) ==
  Return([setStatus(m, Status("scanError")) EXCEPT !.isScanning = FALSE])

\* ensurePermission rejects: refreshDirectory catches the error, while
\* handleConversion awaits outside any try and rejects itself.
EnsureThrows(m) ==
  LET m1 == [m EXCEPT !.hi.ens = NoEnsure]
  IN  IF m.pr.mode = "read"
      THEN RefreshCatch(m1)
      ELSE Return([m1 EXCEPT !.hi.outcome = "rejected"])

\* A probe for queryPermission alone.
QueryOnly == caps.query

\* Both permission methods are functions of the handle.
HasPermissionApi == caps.query /\ caps.request

\* ensurePermission up to `await permissionHandle.queryPermission({ mode })`.
ensurePermission(m, mode) ==
  LET m1 == [m EXCEPT !.pr.mode = mode,
                      !.hi.ens = [NoEnsure EXCEPT !.mode = mode,
                                                  !.hasApi = HasPermissionApi]]
  IN  IF ~HasPermissionApi
      THEN EnsureReturn(m1, TRUE)
      ELSE [m1 EXCEPT !.pr.pc = "queryPermission", !.hi.asked = @ \cup {mode}]

\* refreshDirectory up to its first await; handle is `incoming ?? directoryHandle`
\* of the closure the handler was created in.
refreshDirectory(m, incoming) ==
  LET handle == IF incoming # NoHandle THEN incoming ELSE m.pr.handle
  IN  IF handle = NoHandle THEN Return(m)
      ELSE ensurePermission(
             setStatus([m EXCEPT !.isScanning = TRUE, !.hi.scans = @ + 1,
                                 !.hi.scanAt = m.hi.okLogs + m.hi.failLogs],
                       Status("loading")),
             "read")

EntryResult(m, success) ==
  [entry |-> m.pr.i, success |-> success, complete |-> (Cardinality(m.hi.steps) = 7),
   produced |-> m.hi.produced, cleanups |-> m.hi.cleanups, steps |-> m.hi.steps]

\* The end of the try block: the success entry, then the next iteration.
EntrySucceeded(m) ==
  LET candidate == m.pr.targets[m.pr.i]
      entry == [ok |-> TRUE, source |-> candidate.name, target |-> m.pr.newName]
  IN  NextEntry([appendLog(m, entry) EXCEPT
                   !.hi.last = EntryResult(m, TRUE), !.hi.okLogs = @ + 1])

\* A catch block that lets the error leave the handler.
EntryRethrown(m) == Return(m)

\* The catch block: the failure entry (its text is error.message), then the
\* next iteration.
EntryFailed(m) ==
  LET candidate == m.pr.targets[m.pr.i]
      entry == [ok |-> FALSE, source |-> candidate.name, target |-> <<>>]
  IN  NextEntry([appendLog(m, entry) EXCEPT
                   !.hi.last = EntryResult(m, FALSE), !.hi.failLogs = @ + 1])

StepDone(m, step) == [m EXCEPT !.hi.steps = @ \cup {step}]

\* source.cleanup()
cleanup(m) ==
  [m EXCEPT !.hi.cleanups = @ + 1,
            !.pr.source = <<[m.pr.source[1] EXCEPT !.released = TRUE]>>]

\* convertWithCanvas after `await rasterize(file)` produced a source, up to
\* `await canvasToBlob(canvas, mimeType)`.
ConvertAfterRasterize(m, contextOk, drawOk) ==
  IF ~contextOk THEN EntryFailed(cleanup(m))
  ELSE IF ~drawOk THEN EntryFailed(m)
  ELSE [m EXCEPT !.pr.pc = "toBlob"]

\* Every file child, whatever its type.
collectEveryFile(children) ==
  LET kept == SelectSeq(children, LAMBDA entry : entry.kind = "file")
  IN  [k \in 1..Len(kept) |-> [name |-> kept[k].name, type |-> kept[k].type]]

\* The loop of collectImageEntries over the children: the files of a
\* supported type, in the order of the enumeration.
collectFrom(children) ==
  LET Kept(entry) == entry.kind = "file" /\ entry.type \in SUPPORTED_MIME_TYPES
      kept == SelectSeq(children, Kept)
  IN  [k \in 1..Len(kept) |-> [name |-> kept[k].name, type |-> kept[k].type]]

\* The entries in the order the platform enumerates them.
UnsortedEntries(children) == collectFrom(children)

collectImageEntries(children) == sortByName(collectFrom(children))

EmptyFile(name) ==
  [name |-> name, kind |-> "file", type |-> TypeOfName(name), valid |-> FALSE,
   width |-> 0, height |-> 0]

\* directoryHandle.getFileHandle(newName, { create: true })
CreateIfMissing(d, name) ==
  IF IndexOfName(d, name) # 0 THEN d ELSE Append(d, EmptyFile(name))

\* writable.close(): the written bytes become the content of the file.
Commit(d, name, blob) ==
  LET written == [name |-> name, kind |-> "file", type |-> TypeOfName(name),
                  valid |-> TRUE, width |-> blob.width, height |-> blob.height]
      k == IndexOfName(d, name)
  IN  IF k = 0 THEN Append(d, written) ELSE [d EXCEPT ![k] = written]

\* ---------------------------------------------------------------- triggers

\* The buttons are disabled while a scan or a batch is flagged.
UIAccepts == ~isScanning /\ ~isConverting

\* A handler is in flight from its trigger until it returns.
InFlight(p) == proc[p].pc \notin {"idle", "returned"}

\* A click is delivered to the next activation: the button is enabled and the
\* page is not behind the modal directory picker.
CanTrigger(p) ==
  /\ \E k \in 1..Len(Activations) :
       /\ p = Activations[k]
       /\ proc[p].pc = "idle"
       /\ \A j \in 1..(k - 1) : proc[Activations[j]].pc # "idle"
  /\ UIAccepts
  /\ \A q \in Procs : proc[q].pc # "showDirectoryPicker"

NewHist(kind) == [InitHist EXCEPT !.kind = kind, !.logsBefore = Len(logs)]

Fresh(p, kind) ==
  [Cur(p) EXCEPT !.pr = [IdleProc EXCEPT !.kind = kind, !.handle = directoryHandle],
                 !.hi = NewHist(kind)]

\* handleDirectoryPick up to `await picker({ mode: "readwrite" })`.
HandleDirectoryPick(p) ==
  /\ CanTrigger(p)
  /\ Apply(p, [Fresh(p, "pick") EXCEPT !.pr.pc = "showDirectoryPicker"])
  /\ UNCHANGED <<disk, caps, call>>

\* A handler that reports the AbortError like any other error.
PickerAbortReported(p) ==
  /\ proc[p].pc = "showDirectoryPicker"
  /\ \/ LET handle == directoryHandle + 1
            m == [Cur(p) EXCEPT !.directoryHandle = handle,
                                !.logs = <<>>, !.appended = <<>>,
                                !.hi.outcome = "picked"]
        IN  Apply(p, refreshDirectory(m, handle))
     \/ Apply(p, Return([setStatus(Cur(p), Status("pickError"))
                           EXCEPT !.hi.outcome = "aborted"]))
     \/ Apply(p, Return([setStatus(Cur(p), Status("pickError"))
                           EXCEPT !.hi.outcome = "pickError"]))
  /\ UNCHANGED <<disk, caps, call>>

\* The picker resolves with a handle, or rejects (AbortError or another error).
PickerResolves(p) ==
  /\ proc[p].pc = "showDirectoryPicker"
  /\ \/ LET handle == directoryHandle + 1
            m == [Cur(p) EXCEPT !.directoryHandle = handle,
                                !.logs = <<>>, !.appended = <<>>,
                                !.hi.outcome = "picked"]
        IN  Apply(p, refreshDirectory(m, handle))
     \/ Apply(p, Return([Cur(p) EXCEPT !.hi.outcome = "aborted"]))
     \/ Apply(p, Return([setStatus(Cur(p), Status("pickError"))
                           EXCEPT !.hi.outcome = "pickError"]))
  /\ UNCHANGED <<disk, caps, call>>

\* The rescan button: refreshDirectory() up to its first await.
Rescan(p) ==
  /\ CanTrigger(p)
  /\ directoryHandle # NoHandle
  /\ Apply(p, refreshDirectory(Fresh(p, "refresh"), NoHandle))
  /\ UNCHANGED <<disk, caps, call>>

\* A handler without the check for an empty target list.
ConversionWithoutTargetCheck(p, direction) ==
  /\ CanTrigger(p)
  /\ LET config == DIRECTION_CONFIG[direction]
         Matches(file) == hasExtension(file.name, config.sourceExt)
         targets == SelectSeq(images, Matches)
         m == [Fresh(p, "convert") EXCEPT
                 !.pr.direction = direction, !.pr.targets = targets,
                 !.hi.direction = direction,
                 !.hi.matched = [k \in 1..Len(targets) |-> targets[k].name]]
     IN  IF directoryHandle = NoHandle
         THEN Apply(p, Return([m EXCEPT !.hi.outcome = "noDirectory"]))
         ELSE Apply(p, ensurePermission(m, "readwrite"))
  /\ UNCHANGED <<disk, caps, call>>

\* handleConversion(direction) up to its first await.
HandleConversion(p, direction) ==
  /\ CanTrigger(p)
  /\ LET config == DIRECTION_CONFIG[direction]
         Matches(file) == hasExtension(file.name, config.sourceExt)
         targets == SelectSeq(images, Matches)
         m == [Fresh(p, "convert") EXCEPT
                 !.pr.direction = direction, !.pr.targets = targets,
                 !.hi.direction = direction,
                 !.hi.matched = [k \in 1..Len(targets) |-> targets[k].name]]
     IN  IF directoryHandle = NoHandle
         THEN Apply(p, Return([m EXCEPT !.hi.outcome = "noDirectory"]))
         ELSE IF Len(targets) = 0
         THEN Apply(p, Return([setStatus(m, Status("noTargets"))
                                 EXCEPT !.hi.outcome = "noTargets"]))
         ELSE Apply(p, ensurePermission(m, "readwrite"))
  /\ UNCHANGED <<disk, caps, call>>

\* -------------------------------------------------------- ensurePermission

\* An ensurePermission that prompts unless the permission is granted.
QueryThenAlwaysPrompt(p) ==
  /\ proc[p].pc = "queryPermission"
  /\ \E current \in PermissionState :
       LET m == [Cur(p) EXCEPT !.hi.ens.queried = current]
       IN  IF current = "granted" THEN Apply(p, EnsureReturn(m, TRUE))
           ELSE Apply(p, [m EXCEPT !.pr.pc = "requestPermission",
                                   !.hi.ens.requests = @ + 1])
  /\ UNCHANGED <<disk, caps, call>>

\* `await permissionHandle.queryPermission({ mode })` rejects (the directory
\* is gone), or resolves with the state the permission has at that moment.  The user can grant, block or reset the
\* permission in the browser at any time, so every state is a possible answer.
QueryPermissionResolves(p) ==
  /\ proc[p].pc = "queryPermission"
  /\ \/ \E current \in PermissionState :
          LET m == [Cur(p) EXCEPT !.hi.ens.queried = current]
          IN  IF current = "granted" THEN Apply(p, EnsureReturn(m, TRUE))
              ELSE IF current = "denied" THEN Apply(p, EnsureReturn(m, FALSE))
              ELSE Apply(p, [m EXCEPT !.pr.pc = "requestPermission",
                                      !.hi.ens.requests = @ + 1])
     \/ Apply(p, EnsureThrows(Cur(p)))
  /\ UNCHANGED <<disk, caps, call>>

\* `await permissionHandle.requestPermission({ mode })` rejects (no user
\* activation is left for a prompt), or resolves with the user's answer.
RequestPermissionResolves(p) ==
  /\ proc[p].pc = "requestPermission"
  /\ \/ \E result \in PermissionState :
          Apply(p, EnsureReturn([Cur(p) EXCEPT !.hi.ens.answer = result],
                                result = "granted"))
     \/ Apply(p, EnsureThrows(Cur(p)))
  /\ UNCHANGED <<disk, caps, call>>

\* -------------------------------------------------------- refreshDirectory

\* `await collectImageEntries(handle)` throws, or resolves with the inventory.
CollectResolves(p) ==
  /\ proc[p].pc = "collectImageEntries"
  /\ \/ Apply(p, RefreshCatch(Cur(p)))
     \/ \E items \in {collectImageEntries(disk)} :
          LET m == [Cur(p) EXCEPT !.images = items]
              done == IF Len(items) > 0 THEN StatusOf("loaded", <<>>, Len(items))
                      ELSE Status("noneFound")
          IN  Apply(p, Return([setStatus(m, done) EXCEPT !.isScanning = FALSE]))
  /\ UNCHANGED <<disk, caps, call>>

\* ------------------------------------------- the for loop of handleConversion

AllSteps ==
  {"getFile", "rasterize", "encode", "getFileHandle", "createWritable", "write",
   "close"}

Candidate(p) == proc[p].targets[proc[p].i]

\* `await candidate.handle.getFile()` resolves; convertWithCanvas and rasterize
\* run up to the decode they await.
GetFileResolves(p) ==
  /\ proc[p].pc = "getFile"
  /\ LET k == IndexOfName(disk, Candidate(p).name)
     IN  \/ /\ k # 0
            /\ Apply(p, [StepDone(Cur(p), "getFile") EXCEPT
                           !.pr.file = <<disk[k]>>,
                           !.pr.pc = IF caps.bitmap THEN "createImageBitmap"
                                     ELSE "imageLoad"])
         \/ Apply(p, EntryFailed(Cur(p)))
  /\ UNCHANGED <<disk, caps, call>>

\* The decode resolves (createImageBitmap, or the load/error event of the
\* image element); on success the canvas is set up and drawn.
RasterizeResolves(p) ==
  /\ proc[p].pc \in {"createImageBitmap", "imageLoad"}
  /\ LET file == proc[p].file[1]
         source == [width |-> file.width, height |-> file.height,
                    strategy |-> proc[p].pc, released |-> FALSE]
     IN  IF file.valid
         THEN \E contextOk, drawOk \in BOOLEAN :
                Apply(p, ConvertAfterRasterize(
                           [StepDone(Cur(p), "rasterize") EXCEPT
                              !.pr.source = <<source>>, !.hi.produced = TRUE],
                           contextOk, drawOk))
         ELSE Apply(p, EntryFailed(Cur(p)))
  /\ UNCHANGED <<disk, caps, call>>

\* A canvas left at the size a new canvas element has.
defaultCanvas(source) == [width |-> 300, height |-> 150]

\* The canvas of convertWithCanvas: sized to the source, which is drawn at
\* the origin unscaled.
canvasOf(source) == [width |-> source.width, height |-> source.height]

\* The blob canvas.toBlob encodes: the whole canvas, in the asked type.
canvasToBlob(canvas, mimeType) ==
  [type |-> mimeType, width |-> canvas.width, height |-> canvas.height]

\* A handler that creates the target before the blob is there.
ToBlobAfterCreate(p) ==
  /\ proc[p].pc = "toBlob"
  /\ LET config == DIRECTION_CONFIG[proc[p].direction]
         newName == replaceExtension(Candidate(p).name, config.targetExt)
     IN  \/ LET source == proc[p].source[1]
                blob == canvasToBlob(canvasOf(source), config.mime)
                m == cleanup(StepDone(Cur(p), "encode"))
            IN  /\ Apply(p, [m EXCEPT !.pr.blob = <<blob>>, !.pr.newName = newName,
                                      !.pr.pc = "getFileHandle"])
                /\ UNCHANGED disk
         \/ /\ Apply(p, EntryFailed(Cur(p)))
            /\ disk' = CreateIfMissing(disk, newName)
  /\ UNCHANGED <<caps, call>>

\* The callback of canvas.toBlob runs with a blob or with null.
ToBlobResolves(p) ==
  /\ proc[p].pc = "toBlob"
  /\ \/ LET config == DIRECTION_CONFIG[proc[p].direction]
            source == proc[p].source[1]
            blob == canvasToBlob(canvasOf(source), config.mime)
            m == cleanup(StepDone(Cur(p), "encode"))
        IN  Apply(p, [m EXCEPT
                        !.pr.blob = <<blob>>,
                        !.pr.newName = replaceExtension(Candidate(p).name,
                                                        config.targetExt),
                        !.pr.pc = "getFileHandle"])
     \/ Apply(p, EntryFailed(Cur(p)))
  /\ UNCHANGED <<disk, caps, call>>

\* `await directoryHandle.getFileHandle(newName, { create: true })` resolves.
GetFileHandleResolves(p) ==
  /\ proc[p].pc = "getFileHandle"
  /\ \/ /\ Apply(p, [StepDone(Cur(p), "getFileHandle") EXCEPT
                       !.pr.pc = "createWritable",
                       !.hi.touched = @ \cup {"getFileHandle"},
                       !.hi.written = @ \cup {proc[p].newName}])
        /\ disk' = CreateIfMissing(disk, proc[p].newName)
     \/ /\ Apply(p, EntryFailed(Cur(p)))
        /\ UNCHANGED disk
  /\ UNCHANGED <<caps, call>>

\* `await newHandle.createWritable()` resolves.
CreateWritableResolves(p) ==
  /\ proc[p].pc = "createWritable"
  /\ \/ Apply(p, [StepDone(Cur(p), "createWritable") EXCEPT !.pr.pc = "write"])
     \/ Apply(p, EntryFailed(Cur(p)))
  /\ UNCHANGED <<disk, caps, call>>

\* `await writable.write(blob)` resolves.
WriteResolves(p) ==
  /\ proc[p].pc = "write"
  /\ \/ Apply(p, [StepDone(Cur(p), "write") EXCEPT !.pr.pc = "close"])
     \/ Apply(p, EntryFailed(Cur(p)))
  /\ UNCHANGED <<disk, caps, call>>

\* A close whose rejection is logged like a success.
CloseLogsSuccess(p) ==
  /\ proc[p].pc = "close"
  /\ \/ /\ Apply(p, EntrySucceeded([StepDone(Cur(p), "close") EXCEPT
                                      !.hi.touched = @ \cup {"close"}]))
        /\ disk' = Commit(disk, proc[p].newName, proc[p].blob[1])
     \/ /\ Apply(p, EntrySucceeded(Cur(p)))
        /\ UNCHANGED disk
  /\ UNCHANGED <<caps, call>>

\* `await writable.close()` resolves.
CloseResolves(p) ==
  /\ proc[p].pc = "close"
  /\ \/ /\ Apply(p, EntrySucceeded([StepDone(Cur(p), "close") EXCEPT
                                      !.hi.touched = @ \cup {"close"}]))
        /\ disk' = Commit(disk, proc[p].newName, proc[p].blob[1])
     \/ /\ Apply(p, EntryFailed(Cur(p)))
        /\ UNCHANGED disk
  /\ UNCHANGED <<caps, call>>

\* ----------------------------------------------------------- specification

Next ==
  \/ \E p \in Procs : HandleDirectoryPick(p)
  \/ \E p \in Procs : PickerResolves(p)
  \/ \E p \in Procs : Rescan(p)
  \/ \E p \in Procs, direction \in ConversionDirection : HandleConversion(p, direction)
  \/ \E p \in Procs : QueryPermissionResolves(p)
  \/ \E p \in Procs : RequestPermissionResolves(p)
  \/ \E p \in Procs : CollectResolves(p)
  \/ \E p \in Procs : GetFileResolves(p)
  \/ \E p \in Procs : RasterizeResolves(p)
  \/ \E p \in Procs : ToBlobResolves(p)
  \/ \E p \in Procs : GetFileHandleResolves(p)
  \/ \E p \in Procs : CreateWritableResolves(p)
  \/ \E p \in Procs : WriteResolves(p)
  \/ \E p \in Procs : CloseResolves(p)

Spec == Init /\ [][Next]_vars

\* The promises of the file system, of the decoder and encoder and of the
\* permission query settle; the picker and the permission prompt wait for
\* the user, who may never answer.
Settles(p) ==
  \/ QueryPermissionResolves(p)
  \/ CollectResolves(p)
  \/ GetFileResolves(p)
  \/ RasterizeResolves(p)
  \/ ToBlobResolves(p)
  \/ GetFileHandleResolves(p)
  \/ CreateWritableResolves(p)
  \/ WriteResolves(p)
  \/ CloseResolves(p)

\* The directory of the fair behaviours: the decodable and the corrupt PNG.
TwoPng == SelectSeq(Candidates, LAMBDA c : c.type = "image/png")

FairInit == Init /\ disk = TwoPng

FairSpec == FairInit /\ [][Next]_vars /\ \A p \in Procs : WF_vars(Settles(p))

\* The log entries of batches over TwoPng: the corrupt PNG fails, the
\* decodable one fails or succeeds.
LogEntries ==
  { [ok |-> FALSE, source |-> TwoPng[2].name, target |-> <<>>],
    [ok |-> FALSE, source |-> TwoPng[1].name, target |-> <<>>],
    [ok |-> TRUE, source |-> TwoPng[1].name,
     target |-> replaceExtension(TwoPng[1].name, WEBP_EXT)] }

\* What earlier batches in which every entry failed have appended, the oldest
\* first.
PriorAppends(n) ==
  [k \in 1..n |->
     [ok |-> FALSE, source |-> TwoPng[2 - (k % 2)].name, target |-> <<>>]]

Reverse(s) == [k \in 1..Len(s) |-> s[Len(s) - k + 1]]

\* A session with a picked and scanned directory whose log is at most
\* MaxAppends entries short of MaxLogs.
LogInit ==
  /\ directoryHandle = NoHandle + 1
  /\ disk = TwoPng
  /\ caps \in {c \in Platforms : c.query /\ c.request}
  /\ images = collectImageEntries(disk)
  /\ status = Status("completed")
  /\ \E n \in (MaxLogs - MaxAppends)..MaxLogs :
       /\ appended = PriorAppends(n)
       /\ logs = Reverse(appended)
  /\ isScanning = FALSE
  /\ isConverting = FALSE
  /\ proc = [p \in Procs |-> IdleProc]
  /\ hist = [p \in Procs |-> InitHist]
  /\ call = NoCall

\* appendLog(entry), for a log that is short or about to be full.
AppendLogCall ==
  /\ \/ Len(appended) < MaxAppends
     \/ /\ Len(appended) >= MaxLogs - MaxAppends
        /\ Len(appended) < MaxLogs + MaxAppends
  /\ \E entry \in LogEntries :
       \E m \in {appendLog(Cur(Activations[1]), entry)} :
         /\ logs' = m.logs
         /\ appended' = m.appended
  /\ UNCHANGED <<directoryHandle, images, status, isScanning, isConverting,
                 disk, caps, proc, hist, call>>

\* setLogs([])
ResetLogCall ==
  /\ logs' = <<>>
  /\ appended' = <<>>
  /\ UNCHANGED <<directoryHandle, images, status, isScanning, isConverting,
                 disk, caps, proc, hist, call>>

LogNext == AppendLogCall \/ ResetLogCall

LogSpec == LogInit /\ [][LogNext]_vars

\* ---------------------------------------------- the helpers on their own

\* Largest number of children of a directory handed to collectImageEntries.
MaxScan == 3

\* Largest length of the part of a file name before its suffix.
MaxStem == 2

\* What a scanned directory may hold: the candidates above, a JPEG and a PNG
\* whose name differs from another one by the case of its suffix only.
ScanCandidates ==
  Candidates \o
  << [name |-> <<"p", ".", "j", "p", "g">>, kind |-> "file", type |-> "image/jpeg",
      valid |-> TRUE, width |-> 1, height |-> 1],
     [name |-> <<"a", ".", "P", "N", "G">>, kind |-> "file", type |-> "image/png",
      valid |-> TRUE, width |-> 1, height |-> 1] >>

\* The directories of at most n children, in every order of enumeration.
ScanDirectories(n) ==
  LET pool == 1..Len(ScanCandidates)
      orders == UNION {[1..k -> pool] : k \in 0..n}
      once == {o \in orders : \A i, j \in DOMAIN o : i # j => o[i] # o[j]}
  IN  {[k \in DOMAIN o |-> ScanCandidates[o[k]]] : o \in once}

StemChars == {"a", ".", "G"}

Stems == UNION {[1..k -> StemChars] : k \in 0..MaxStem}

Suffixes ==
  { <<>>, PNG_EXT, WEBP_EXT,
    <<".", "P", "N", "G">>, <<".", "p", "N", "g">>, <<".", "W", "E", "B", "P">>,
    <<"p", "n", "g">>, <<".", "p", "n">>, <<".", "j", "p", "g">> }

FileNames == {stem \o suffix : stem \in Stems, suffix \in Suffixes}

\* A helper is about to be called with arguments of the bounded sets.
FnInit ==
  /\ directoryHandle = NoHandle
  /\ images = <<>>
  /\ status = Status("none")
  /\ logs = <<>>
  /\ appended = <<>>
  /\ isScanning = FALSE
  /\ isConverting = FALSE
  /\ disk = <<>>
  /\ caps \in {c \in Platforms : c.query /\ c.request}
  /\ proc = [p \in Procs |-> IdleProc]
  /\ hist = [p \in Procs |-> InitHist]
  /\ \/ \E children \in ScanDirectories(MaxScan) :
          call = [NoCall EXCEPT !.fn = "collectImageEntries", !.children = children]
     \/ \E fileName \in FileNames, direction \in ConversionDirection :
          call = [NoCall EXCEPT !.fn = "replaceExtension", !.fileName = fileName,
                                !.direction = direction]

\* collectImageEntries(handle) returns (no getFile rejects).
CollectImageEntriesReturns ==
  /\ call.fn = "collectImageEntries" /\ ~call.returned
  /\ call' = [call EXCEPT !.returned = TRUE,
                          !.entries = collectImageEntries(call.children)]
  /\ UNCHANGED <<directoryHandle, images, status, logs, appended, isScanning,
                 isConverting, disk, caps, proc, hist>>

\* hasExtension(entry.name, config.sourceExt) and
\* replaceExtension(entry.name, config.targetExt) return.
ReplaceExtensionReturns ==
  /\ call.fn = "replaceExtension" /\ ~call.returned
  /\ LET config == DIRECTION_CONFIG[call.direction]
     IN  call' = [call EXCEPT
                    !.returned = TRUE,
                    !.matched = hasExtension(call.fileName, config.sourceExt),
                    !.newName = replaceExtension(call.fileName, config.targetExt)]
  /\ UNCHANGED <<directoryHandle, images, status, logs, appended, isScanning,
                 isConverting, disk, caps, proc, hist>>

FnNext == CollectImageEntriesReturns \/ ReplaceExtensionReturns

FnSpec == FnInit /\ [][FnNext]_vars

\* -------------------------------------------------------------- properties

LoopPcs ==
  {"getFile", "createImageBitmap", "imageLoad", "toBlob", "getFileHandle",
   "createWritable", "write", "close"}

InLoop(p) == proc[p].pc \in LoopPcs

\* Number of log entries the activation has appended.
Logged(p) == hist[p].okLogs + hist[p].failLogs

\* Number of entries the activation matched.
Matched(p) == Len(hist[p].matched)

\* The activation is a conversion batch that passed the permission check.
Batch(p) == hist[p].kind = "convert" /\ hist[p].setConverting

\* C1: partial-failure isolation.  A batch that passed the permission check
\* leaves its loop only as completed, with every matched entry started and
\* logged, whatever failed; after a failure entry for an entry that is not the
\* last one the handler is reading the next entry.
C1_PartialFailureIsolation ==
  \A p \in Procs :
    Batch(p) =>
      /\ ~InLoop(p) => /\ hist[p].outcome = "completed"
                       /\ hist[p].started = Matched(p)
                       /\ Logged(p) = Matched(p)
      /\ LET r == hist[p].last
         IN  (r.entry # 0 /\ ~r.success /\ r.entry < Matched(p)) =>
               /\ proc[p].pc = "getFile"
               /\ proc[p].i = r.entry + 1
               /\ hist[p].started = r.entry + 1

\* A batch has completed in which a failure entry was followed by a success
\* entry for a later matched entry.
C1_Witness ==
  \E p \in Procs :
    /\ Batch(p) /\ hist[p].outcome = "completed"
    /\ hist[p].failLogs >= 1
    /\ hist[p].last.success /\ hist[p].last.entry = Matched(p)

\* C2: a batch over n matched entries appends exactly n log entries, one per
\* entry, a success entry iff every sub-step succeeded; and when it started
\* from an empty log and n <= 20, the log holds exactly n entries when the
\* batch completes.
C2_ExactlyOneLogEntryPerEntry ==
  \A p \in Procs :
    LET r == hist[p].last
    IN  (Batch(p) /\ r.entry # 0) =>
          /\ Logged(p) = r.entry
          /\ r.success <=> r.complete
          /\ (r.entry = Matched(p) /\ hist[p].logsBefore = 0 /\ Matched(p) <= MaxLogs)
               => Len(logs) = Matched(p)

\* C3: when ensurePermission(directoryHandle, "readwrite") returns false the
\* handler returns with the write-permission message as status, having
\* called no file operation, appended no log entry and never set isConverting.
C3_PermissionDenial ==
  \A p \in Procs :
    (hist[p].kind = "convert" /\ hist[p].ens.mode = "readwrite"
       /\ hist[p].ens.result = "false") =>
      /\ proc[p].pc = "returned"
      /\ hist[p].outcome = "denied"
      /\ hist[p].touched = {}
      /\ Logged(p) = 0
      /\ ~hist[p].setConverting
      /\ hist[p].scans = 0
      /\ status = Status("writeDenied")

\* A conversion whose read-write permission was refused by the user at the
\* prompt.
C3_Witness ==
  \E p \in Procs :
    /\ hist[p].kind = "convert" /\ hist[p].ens.mode = "readwrite"
    /\ hist[p].ens.result = "false" /\ hist[p].ens.answer = "denied"

\* C4: for every entry whose rasterize call produced a source, cleanup was
\* invoked exactly once by the time the entry is logged.
C4_CleanupExactlyOnce ==
  \A p \in Procs :
    LET r == hist[p].last
    IN  (r.entry # 0 /\ r.produced) => r.cleanups = 1

\* C5: a conversion with a directory and no matching inventory entry returns
\* at once with the "no targets" status: ensurePermission was not called, no
\* file was touched, nothing was logged and the busy flags are as before.
C5_NoTargets ==
  \A p \in Procs :
    (hist[p].kind = "convert" /\ hist[p].outcome # "noDirectory"
       /\ Matched(p) = 0) =>
      /\ proc[p].pc = "returned"
      /\ hist[p].outcome = "noTargets"
      /\ \A k \in 1..Len(images) :
           ~hasExtension(images[k].name, DIRECTION_CONFIG[hist[p].direction].sourceExt)
      /\ hist[p].ens = NoEnsure
      /\ hist[p].touched = {}
      /\ Logged(p) = 0 /\ Len(logs) = hist[p].logsBefore
      /\ hist[p].scans = 0
      /\ ~hist[p].setConverting /\ ~isConverting /\ ~isScanning
      /\ status = Status("noTargets")

\* A PNG to WebP conversion was asked for while the inventory holds a WebP
\* file only.
C5_Witness ==
  \E p \in Procs :
    /\ hist[p].kind = "convert" /\ hist[p].outcome = "noTargets"
    /\ hist[p].direction = "png-to-webp"
    /\ Len(images) >= 1

\* The value ensurePermission returns from what the call observed, when
\* `implicit` says that the handle is taken as granted without a query.
C6_Expected(e, implicit) ==
  IF implicit THEN "true"
  ELSE IF e.queried = "granted" THEN "true"
  ELSE IF e.queried = "denied" THEN "false"
  ELSE IF e.answer = "granted" THEN "true" ELSE "false"

C6_Returns(implicit) ==
  \A p \in Procs :
    LET e == hist[p].ens
    IN  e.result # "pending" =>
          /\ e.result = C6_Expected(e, implicit)
          /\ ~implicit => e.queried # "none"
          /\ e.queried = "prompt" => e.answer # "none"

\* C6 as stated: ensurePermission returns true when the handle has no
\* queryPermission; otherwise it queries, and returns true when the state is
\* granted, false when it is denied, and in the prompt state true iff the
\* request was granted.
C6_AsStated == C6_Returns(~caps.query)

\* C6: ensurePermission returns true without a query when the handle lacks
\* queryPermission or requestPermission; otherwise it queries, and returns
\* true when the state is granted, false when it is denied, and in the prompt
\* state true iff the request was granted.
C6_EnsurePermissionResult == C6_Returns(~(caps.query /\ caps.request))

\* A call that found the prompt state and returned true after the user
\* granted the request.
C6_Witness ==
  \E p \in Procs :
    /\ hist[p].ens.queried = "prompt" /\ hist[p].ens.answer = "granted"
    /\ hist[p].ens.result = "true"

\* C7: requestPermission is invoked only after the query returned the prompt
\* state, and at most once per ensurePermission call.
C7_PromptOnlyWhenNeeded ==
  \A p \in Procs :
    LET e == hist[p].ens
    IN  /\ e.requests <= 1
        /\ e.requests = 1 <=> e.queried = "prompt"
        /\ proc[p].pc = "requestPermission" => (e.requests = 1 /\ e.queried = "prompt")
        /\ e.answer # "none" => e.requests = 1

\* A call that found the permission denied and returned false without a
\* prompt.
C7_Witness ==
  \E p \in Procs :
    /\ hist[p].ens.queried = "denied" /\ hist[p].ens.result = "false"
    /\ hist[p].ens.requests = 0

\* C8: triggers are serialized: at most one handler is in flight.
C8_TriggersSerialized == Cardinality({p \in Procs : InFlight(p)}) <= 1

\* The part of C9 that holds in every state: a batch starts its scan only
\* when it completes, after as many log entries as it matched entries, and
\* a completed batch has said so, has started exactly one scan and has
\* logged every entry.
C9_ScanOnceAfterLastEntry ==
  \A p \in Procs :
    Batch(p) =>
      /\ hist[p].scans <= 1
      /\ hist[p].scans = 1 <=> hist[p].outcome = "completed"
      /\ hist[p].outcome = "completed" =>
            /\ "completed" \in hist[p].said
            /\ hist[p].scanAt = Matched(p)
            /\ Logged(p) = Matched(p)
      /\ hist[p].outcome \in {"processing", "completed"}

\* The step in which a batch completes clears isConverting and starts the
\* scan.
C9_CompletionStep ==
  \A p \in Procs :
    (Batch(p) /\ hist[p].outcome = "processing" /\ hist'[p].outcome = "completed") =>
      /\ ~isConverting'
      /\ isScanning'
      /\ hist'[p].scans = 1
      /\ proc'[p].pc \in {"queryPermission", "collectImageEntries"}

\* C9: every batch that passed the permission check completes, however many
\* of its entries failed: isConverting is cleared, the completed status is
\* set and one scan is started, after the last entry and not before.
C9_BatchCompletes ==
  /\ []C9_ScanOnceAfterLastEntry
  /\ [][C9_CompletionStep]_vars
  /\ \A p \in Procs : Batch(p) ~> (hist[p].outcome = "completed")

\* A batch of two entries completed with two failure entries.
C9_Witness ==
  \E p \in Procs :
    /\ Batch(p) /\ hist[p].outcome = "completed"
    /\ Matched(p) = 2 /\ hist[p].failLogs = 2
    /\ ~isConverting /\ hist[p].scans = 1

Ascending(names) ==
  \A j, k \in 1..Len(names) : j < k => localeCompare(names[j], names[k]) < 0

\* C10: the matched entries are in the order of the scan, ascending by name,
\* and are processed one after the other: entry i is being processed only
\* when exactly the i - 1 entries before it have been logged, the sub-steps
\* done are those of entry i alone, and the k-th log entry of the batch is
\* that of the k-th matched entry.
C10_SequentialInScanOrder ==
  \A p \in Procs :
    hist[p].kind = "convert" =>
      /\ Ascending(hist[p].matched)
      /\ InLoop(p) =>
            /\ proc[p].i = Logged(p) + 1
            /\ hist[p].started = proc[p].i
            /\ Candidate(p).name = hist[p].matched[proc[p].i]
            /\ hist[p].steps \subseteq AllSteps
      /\ hist[p].started \in {Logged(p), Logged(p) + 1}
      /\ LET r == hist[p].last
         IN  r.entry # 0 =>
               /\ r.entry = Logged(p)
               /\ logs[1].source = hist[p].matched[r.entry]

\* The second of two matched entries is being written after the first was
\* logged.
C10_Witness ==
  \E p \in Procs :
    /\ proc[p].pc = "close" /\ proc[p].i = 2
    /\ Logged(p) = 1 /\ Matched(p) = 2

\* C11: the log is a bounded, newest-first ring: after k appendLog calls
\* since the last reset it holds the most recent min(k, 20) appended entries,
\* the latest at the head, and never more than 20.
C11_LogIsBoundedRing ==
  LET k == Len(appended)
      n == Min(k, MaxLogs)
  IN  /\ Len(logs) = n
      /\ Len(logs) <= MaxLogs
      /\ \A j \in 1..n : logs[j] = appended[k - j + 1]

\* More entries were appended than the log keeps, and the newest and the
\* oldest kept entry differ.
C11_Witness ==
  /\ Len(appended) > MaxLogs + 1
  /\ Len(logs) = MaxLogs
  /\ logs[1] # logs[MaxLogs]

\* C12: for every directory content, collectImageEntries returns exactly the
\* direct file children whose declared type is image/png or image/webp, each
\* once, whatever the names are, and in ascending order of name.
C12_CollectImageEntries ==
  (call.fn = "collectImageEntries" /\ call.returned) =>
    LET wanted == {k \in 1..Len(call.children) :
                     /\ call.children[k].kind = "file"
                     /\ call.children[k].type \in {"image/png", "image/webp"}}
    IN  /\ Len(call.entries) = Cardinality(wanted)
        /\ \A k \in wanted :
             \E j \in 1..Len(call.entries) :
               call.entries[j] = [name |-> call.children[k].name,
                                  type |-> call.children[k].type]
        /\ Ascending([j \in 1..Len(call.entries) |-> call.entries[j].name])

\* A directory enumerated out of order, holding a subdirectory or a file of
\* another type next to two images, was scanned.
C12_Witness ==
  /\ call.fn = "collectImageEntries" /\ call.returned
  /\ Len(call.children) = 3 /\ Len(call.entries) = 2
  /\ call.entries[1].name = call.children[3].name
  /\ \E k \in 1..2 : /\ call.children[k].name = <<"m", ".", "p", "n", "g">>
                      /\ call.children[k].type = "text/plain"

\* C13: a name is matched by a direction exactly when it ends with the
\* source suffix, whatever the case of its letters; the target name of a
\* matched name is the name without that suffix followed by the target
\* suffix; for a name without a dot the target suffix is appended to the
\* whole name ("photo.png" gives "photo.webp", "noext" gives "noext.webp").
C13_ReplaceExtension ==
  /\ replaceExtension(<<"p", "h", "o", "t", "o", ".", "p", "n", "g">>, WEBP_EXT)
       = <<"p", "h", "o", "t", "o", ".", "w", "e", "b", "p">>
  /\ replaceExtension(<<"n", "o", "e", "x", "t">>, WEBP_EXT)
       = <<"n", "o", "e", "x", "t", ".", "w", "e", "b", "p">>
  /\ (call.fn = "replaceExtension" /\ call.returned) =>
       LET name == call.fileName
           src == DIRECTION_CONFIG[call.direction].sourceExt
           tgt == DIRECTION_CONFIG[call.direction].targetExt
           base == Len(name) - Len(src)
           ends == /\ base >= 0
                   /\ \A k \in 1..Len(src) : toLowerCaseChar(name[base + k]) = src[k]
       IN  /\ call.matched <=> ends
           /\ ends => call.newName = [k \in 1..(base + Len(tgt)) |->
                                       IF k <= base THEN name[k] ELSE tgt[k - base]]
           /\ (\A k \in 1..Len(name) : name[k] # ".") =>
                 call.newName = name \o tgt

\* A matched name with an upper-case suffix and a dot before it got its
\* target name.
C13_Witness ==
  /\ call.fn = "replaceExtension" /\ call.returned /\ call.matched
  /\ call.fileName = <<"a", ".", ".", "P", "N", "G">>
  /\ call.newName = <<"a", ".", ".", "w", "e", "b", "p">>

MatchedNames(p) == {hist[p].matched[k] : k \in 1..Matched(p)}

\* No name a batch opens for writing is the name of one of its matched
\* entries, and every matched entry is still in the directory.
C14_TargetsAreNotSources ==
  \A p \in Procs :
    hist[p].kind = "convert" =>
      /\ hist[p].written \cap MatchedNames(p) = {}
      /\ proc[p].pc \in {"getFileHandle", "createWritable", "write", "close"} =>
            proc[p].newName \notin MatchedNames(p)
      /\ \A name \in MatchedNames(p) : IndexOfName(disk, name) # 0

\* No step of a batch changes a child of the directory that bears the name
\* of one of its matched entries.
C14_StepKeepsSources ==
  \A p \in Procs :
    (Batch(p) /\ proc'[p] # proc[p]) =>
      \A k \in 1..Len(disk) :
        disk[k].name \in MatchedNames(p) => (k <= Len(disk') /\ disk'[k] = disk[k])

\* C14: a batch leaves its source files untouched: the names it writes are
\* disjoint from the names of its matched entries and none of its steps
\* changes a matched file, so that after png-to-webp on a directory holding
\* one PNG and one WebP the PNG is still there, its WebP was produced and
\* the rescan counts one PNG and two WebPs.
C14_SourcesUntouched ==
  /\ []C14_TargetsAreNotSources
  /\ [][C14_StepKeepsSources]_vars

\* png-to-webp over a directory holding the PNG b.PNG and the WebP c.webp has
\* completed with one success entry and was rescanned: b.PNG is as it was,
\* and the inventory counts one PNG and two WebPs.
C14_Witness ==
  \E p \in Procs :
    /\ Batch(p) /\ hist[p].outcome = "completed" /\ proc[p].pc = "returned"
    /\ hist[p].direction = "png-to-webp"
    /\ hist[p].matched = <<Candidates[3].name>>
    /\ hist[p].written = {replaceExtension(Candidates[3].name, WEBP_EXT)}
    /\ hist[p].okLogs = 1 /\ logs[1].ok /\ logs[1].source = Candidates[3].name
    /\ disk = <<Candidates[1], Candidates[3],
                [name |-> replaceExtension(Candidates[3].name, WEBP_EXT),
                 kind |-> "file", type |-> "image/webp", valid |-> TRUE,
                 width |-> Candidates[3].width, height |-> Candidates[3].height]>>
    /\ Len(images) = 3 /\ pngCount = 1 /\ webpCount = 2

\* The part of a name before its last dot.
StemOf(name) ==
  IF lastIndexOfDot(name) = -1 THEN name ELSE SubSeq(name, 1, lastIndexOfDot(name))

\* C15: conversion preserves pixel dimensions.  The decoded source and the
\* encoded blob of an entry have the width and height of the file that was
\* read, the blob has the type of the direction, and so every decodable file
\* of the directory has the dimensions of every other decodable file of the
\* same stem, whatever chain of conversions produced it (no two files of a
\* picked directory share a stem).
C15_DimensionsPreserved ==
  /\ \A p \in Procs :
       /\ proc[p].source # <<>> =>
             /\ proc[p].source[1].width = proc[p].file[1].width
             /\ proc[p].source[1].height = proc[p].file[1].height
       /\ proc[p].blob # <<>> =>
             /\ proc[p].blob[1].width = proc[p].file[1].width
             /\ proc[p].blob[1].height = proc[p].file[1].height
             /\ proc[p].blob[1].type = DIRECTION_CONFIG[proc[p].direction].mime
  /\ \A j, k \in 1..Len(disk) :
       (disk[j].valid /\ disk[k].valid /\ StemOf(disk[j].name) = StemOf(disk[k].name)) =>
          /\ disk[j].width = disk[k].width
          /\ disk[j].height = disk[k].height

\* The round trip: b.PNG (1 x 2) was converted to b.webp, and b.webp back to
\* b.png, which is a decodable PNG of 1 x 2.
C15_Witness ==
  \E p \in Procs :
    /\ Batch(p) /\ hist[p].direction = "webp-to-png" /\ hist[p].outcome = "completed"
    /\ \E i, j, k \in 1..Len(disk) :
         /\ disk[i] = Candidates[3]
         /\ disk[j].name = <<"b", ".", "w", "e", "b", "p">> /\ disk[j].valid
         /\ disk[j].type = "image/webp"
         /\ disk[k].name = <<"b", ".", "p", "n", "g">> /\ disk[k].valid
         /\ disk[k].type = "image/png"
         /\ disk[k].width = Candidates[3].width /\ disk[k].height = Candidates[3].height
         /\ disk[k].width # disk[k].height

\* C16: the scan picks up PNG, JPG and WebP files: every file child whose
\* declared type is image/png, image/jpeg or image/webp is in the inventory
\* collectImageEntries returns, and a JPG of the inventory is matched by some
\* conversion direction.
C16_JpgIsScanned ==
  (call.fn = "collectImageEntries" /\ call.returned) =>
    \A k \in 1..Len(call.children) :
      (/\ call.children[k].kind = "file"
       /\ call.children[k].type \in {"image/png", "image/jpeg", "image/webp"}) =>
         /\ \E j \in 1..Len(call.entries) :
              call.entries[j].name = call.children[k].name
         /\ \E d \in ConversionDirection :
              hasExtension(call.children[k].name, DIRECTION_CONFIG[d].sourceExt)

\* The sub-steps of one entry in the order of the try block; the target name
\* is derived between encode and getFileHandle.
StepOrder ==
  <<"getFile", "rasterize", "encode", "getFileHandle", "createWritable", "write",
    "close">>

FirstSteps(n) == {StepOrder[k] : k \in 1..n}

\* The awaits at which an entry waits when its first n sub-steps are done.
AwaitAfter(n) ==
  CASE n = 0 -> {"getFile"}
    [] n = 1 -> {"createImageBitmap", "imageLoad"}
    [] n = 2 -> {"toBlob"}
    [] n = 3 -> {"getFileHandle"}
    [] n = 4 -> {"createWritable"}
    [] n = 5 -> {"write"}
    [] OTHER -> {"close"}

\* In every state: the sub-steps done for the entry in progress are the
\* first n of the order, the entry waits at the await that follows them, its
\* target name is derived once the blob is encoded and not before, and the
\* entry just logged is a success entry exactly when all seven sub-steps
\* were done, close included.
C17_StepsInOrder ==
  \A p \in Procs :
    Batch(p) =>
      /\ InLoop(p) =>
            \E n \in 0..6 :
              /\ hist[p].steps = FirstSteps(n)
              /\ proc[p].pc \in AwaitAfter(n)
              /\ (proc[p].newName # <<>>) <=> n >= 3
              /\ (proc[p].blob # <<>>) <=> n >= 3
      /\ hist[p].last.entry # 0 =>
            /\ \E n \in 0..7 : hist[p].last.steps = FirstSteps(n)
            /\ hist[p].last.success <=> hist[p].last.steps = FirstSteps(7)
            /\ logs # <<>> /\ logs[1].ok = hist[p].last.success

\* In every step of an entry: at most one sub-step is added, a success entry
\* is appended only by the step in which close resolves, after the file was
\* committed under the derived name, and a rejection of write or close
\* appends a failure entry.
C17_StepOfEntry ==
  \A p \in Procs :
    (Batch(p) /\ InLoop(p) /\ proc'[p] # proc[p]) =>
      /\ hist'[p].last.entry = 0 =>
            \/ hist'[p].steps = hist[p].steps
            \/ \E n \in 1..6 : /\ hist[p].steps = FirstSteps(n - 1)
                                /\ hist'[p].steps = FirstSteps(n)
      /\ hist'[p].last.entry # 0 =>
            /\ hist'[p].last.entry = proc[p].i
            /\ logs'[1].source = Candidate(p).name
            /\ hist'[p].last.success =>
                  /\ proc[p].pc = "close"
                  /\ hist[p].steps = FirstSteps(6)
                  /\ logs'[1].target = proc[p].newName
                  /\ \E k \in 1..Len(disk') :
                       /\ disk'[k].name = proc[p].newName
                       /\ disk'[k].valid
                       /\ disk'[k].width = proc[p].blob[1].width
            /\ (proc[p].pc \in {"write", "close"} /\ ~hist'[p].last.success) =>
                  /\ ~logs'[1].ok
                  /\ disk' = disk

\* C17: within one entry the sub-steps happen in the order read file,
\* rasterize, encode, derive name, create-or-overwrite target, write, close,
\* append success entry: a success entry is appended only after the write
\* stream was closed successfully, and a failure in write or close yields a
\* failure entry, never a success entry.
C17_SubStepOrder ==
  /\ []C17_StepsInOrder
  /\ [][C17_StepOfEntry]_vars

\* close was rejected after the six sub-steps before it succeeded: the entry
\* was logged as a failure and the target is the empty file getFileHandle
\* created.
C17_Witness ==
  \E p \in Procs :
    /\ Batch(p) /\ hist[p].last.entry # 0
    /\ ~hist[p].last.success
    /\ hist[p].last.steps = FirstSteps(6)
    /\ ~logs[1].ok
    /\ \E k \in 1..Len(disk) :
         /\ disk[k].name = replaceExtension(logs[1].source, WEBP_EXT)
         /\ ~disk[k].valid

\* The activation is inside the try block of refreshDirectory.
Scanning(p) ==
  /\ proc[p].mode = "read"
  /\ proc[p].pc \in {"queryPermission", "requestPermission", "collectImageEntries"}

\* The step in which a scan ends: the handler returns, isScanning is false,
\* and either the scan succeeded (the inventory is the fresh one, as a whole,
\* and the status says what was found) or it failed (the inventory is the
\* previous one and the status carries the message).  A refused read
\* permission is a failure with the read-permission message.  No other step
\* changes the inventory.
C18_ScanEnds ==
  /\ \A p \in Procs :
       (Scanning(p) /\ proc'[p] # proc[p] /\ ~Scanning(p)') =>
          /\ proc'[p].pc = "returned"
          /\ ~isScanning'
          /\ status'.tag \in {"loaded", "noneFound", "readDenied", "scanError"}
          /\ status'.tag \in hist'[p].said
          /\ status'.tag \in {"loaded", "noneFound"} =>
                /\ proc[p].pc = "collectImageEntries"
                /\ images' = collectImageEntries(disk)
                /\ status'.count = Len(images')
                /\ status'.tag = "noneFound" <=> images' = <<>>
          /\ status'.tag \in {"readDenied", "scanError"} => images' = images
          /\ hist'[p].ens.result = "false" => status'.tag = "readDenied"
  /\ images' # images =>
       \E p \in Procs : /\ Scanning(p) /\ proc[p].pc = "collectImageEntries"
                         /\ status'.tag \in {"loaded", "noneFound"}

\* C18: a scan that fails leaves the session consistent: when read
\* permission is not granted or the permission check or the enumeration
\* throws, refreshDirectory returns, the previous inventory is unchanged (the
\* inventory is only ever replaced as a whole by a successful scan), the
\* status carries the message and isScanning is false on every exit path.
C18_FailedScanIsConsistent == [][C18_ScanEnds]_vars

\* The scan that follows a batch failed: the status carries the error, the
\* busy flags are down and the inventory is the one of the scan before the
\* batch, which lacks the file the batch wrote.
C18_Witness ==
  \E p \in Procs :
    /\ Batch(p) /\ hist[p].outcome = "completed" /\ proc[p].pc = "returned"
    /\ hist[p].okLogs = 1
    /\ status = Status("scanError")
    /\ ~isScanning /\ ~isConverting
    /\ Len(images) = 1 /\ images # collectImageEntries(disk)

\* What an operation has done is covered by its own permission check: a scan
\* that enumerates has had ensurePermission return true for read in this
\* activation, and a batch that has read or written a file has had it return
\* true for readwrite; `queries` says for which platforms the check is a
\* query of the platform.
C19_Checked(queries) ==
  \A p \in Procs :
    /\ proc[p].pc = "collectImageEntries" =>
          /\ "read" \in hist[p].granted
          /\ queries => "read" \in hist[p].asked
    /\ (InLoop(p) \/ hist[p].touched # {} \/ hist[p].written # {}) =>
          /\ hist[p].kind = "convert"
          /\ "readwrite" \in hist[p].granted
          /\ queries => "readwrite" \in hist[p].asked
    /\ hist[p].ens.result = "false" =>
          /\ proc[p].pc = "returned"
          /\ hist[p].ens.mode \notin hist[p].granted
          /\ hist[p].ens.mode = "readwrite" => hist[p].touched = {}

\* C19 as stated: every scan queries read permission before it enumerates
\* and every batch queries read-write permission before its first file read,
\* on every handle that has queryPermission.
C19_AsStated == C19_Checked(caps.query)

\* C19: permission is re-checked per operation and never cached: every scan
\* calls ensurePermission for read before it enumerates and every batch with
\* targets calls it for readwrite before its first file read, and goes on
\* only when that call returned true; the call queries the platform when the
\* handle has both queryPermission and requestPermission, and returns true
\* without a query otherwise.
C19_RecheckedPerOperation == C19_Checked(HasPermissionApi)

\* A revocation between two operations is observed: the inventory of an
\* earlier scan is shown, and a rescan that queried found the permission
\* denied and returned without enumerating.
C19_Witness ==
  \E p \in Procs :
    /\ hist[p].kind = "refresh" /\ proc[p].pc = "returned"
    /\ images # <<>>
    /\ "read" \in hist[p].asked /\ "read" \notin hist[p].granted
    /\ hist[p].ens.queried = "denied" /\ hist[p].ens.result = "false"
    /\ status = Status("readDenied")

\* The step in which the picker ends.  On an AbortError the handler returns
\* and the handle, the inventory, the log, the status and the busy flags are
\* as before.  On a handle the handle is replaced, the log is emptied and a
\* scan is started.  On another error only the status changes.  No other
\* step replaces the handle.
C20_PickerEnds ==
  /\ \A p \in Procs :
       (proc[p].pc = "showDirectoryPicker" /\ proc'[p].pc # "showDirectoryPicker") =>
          /\ hist'[p].outcome \in {"aborted", "picked", "pickError"}
          /\ hist'[p].outcome = "aborted" =>
                /\ proc'[p].pc = "returned"
                /\ UNCHANGED <<directoryHandle, images, logs, status, isScanning,
                               isConverting, disk>>
                /\ hist'[p].said = {} /\ hist'[p].scans = 0
          /\ hist'[p].outcome = "picked" =>
                /\ directoryHandle' # directoryHandle /\ directoryHandle' # NoHandle
                /\ logs' = <<>>
                /\ hist'[p].scans = 1 /\ "loading" \in hist'[p].said
                /\ images' = images
          /\ hist'[p].outcome = "pickError" =>
                /\ proc'[p].pc = "returned"
                /\ status' = Status("pickError")
                /\ UNCHANGED <<directoryHandle, images, logs, isScanning, isConverting>>
  /\ directoryHandle' # directoryHandle =>
       \E p \in Procs : proc[p].pc = "showDirectoryPicker" /\ hist'[p].outcome = "picked"
  /\ (logs # <<>> /\ logs' = <<>>) =>
       \E p \in Procs : proc[p].pc = "showDirectoryPicker" /\ hist'[p].outcome = "picked"

\* C20: cancelling the directory picker is a silent no-op: when the picker
\* ends with an abort signal, the directory handle, the inventory, the log,
\* the status and the busy flags are unchanged; only a successful pick
\* replaces the handle, clears the log and starts a scan of the new
\* directory.
C20_CancelIsNoOp == [][C20_PickerEnds]_vars

\* A picker opened over a session with a directory, an inventory and a log
\* was cancelled, and all of them are still there.
C20_Witness ==
  \E p \in Procs :
    /\ hist[p].kind = "pick" /\ hist[p].outcome = "aborted"
    /\ proc[p].pc = "returned"
    /\ directoryHandle # NoHandle
    /\ images # <<>> /\ logs # <<>>
    /\ status.tag = "loaded"
    /\ ~isScanning /\ ~isConverting

\* The awaits of an entry that come before its target is created.
BeforeCreate == AwaitAfter(0) \cup AwaitAfter(1) \cup AwaitAfter(2)

\* In every state: an entry waits for getFileHandle or beyond only with its
\* file read, decoded and encoded and its blob at hand; before that its
\* target name was not opened by the batch; and an entry logged as failed in
\* read, decode or encode has not called getFileHandle.
C21_CreateAfterEncode ==
  \A p \in Procs :
    Batch(p) =>
      /\ (InLoop(p) /\ proc[p].pc \notin BeforeCreate) =>
            /\ FirstSteps(3) \subseteq hist[p].steps
            /\ proc[p].blob # <<>>
      /\ (InLoop(p) /\ proc[p].pc \in BeforeCreate) =>
            /\ "getFileHandle" \notin hist[p].steps
            /\ replaceExtension(Candidate(p).name,
                                 DIRECTION_CONFIG[proc[p].direction].targetExt)
                  \notin hist[p].written
      /\ (hist[p].last.entry # 0 /\ ~(FirstSteps(3) \subseteq hist[p].last.steps)) =>
            /\ ~hist[p].last.success
            /\ "getFileHandle" \notin hist[p].last.steps

\* In every step: an entry that is before its getFileHandle, whether the
\* step succeeds or fails, leaves the directory and the set of names its
\* batch has opened as they are; the directory changes only in the step in
\* which getFileHandle or close resolves for an entry that was encoded.
C21_StepBeforeCreate ==
  /\ \A p \in Procs :
       (Batch(p) /\ InLoop(p) /\ proc[p].pc \in BeforeCreate /\ proc'[p] # proc[p]) =>
          /\ disk' = disk
          /\ hist'[p].written = hist[p].written
  /\ disk' # disk =>
       \E p \in Procs :
         /\ proc[p].pc \in {"getFileHandle", "close"}
         /\ FirstSteps(3) \subseteq hist[p].steps
         /\ proc'[p] # proc[p]

\* C21: the destination file is created or opened only after the source was
\* read, decoded and encoded; for an entry whose read, decode or encode
\* fails getFileHandle is never called, so that entry leaves the directory
\* unchanged: no empty target is left behind and an existing file of the
\* derived name is not overwritten.
C21_NoTargetBeforeEncode ==
  /\ []C21_CreateAfterEncode
  /\ [][C21_StepBeforeCreate]_vars

\* The encode of an entry failed while a decodable file of the derived name,
\* written by an earlier batch, is in the directory: it is still decodable
\* and the failing batch has opened no name.
C21_Witness ==
  \E p \in Procs :
    /\ Batch(p) /\ hist[p].last.entry # 0 /\ ~hist[p].last.success
    /\ hist[p].direction = "png-to-webp"
    /\ hist[p].last.steps = FirstSteps(2)
    /\ hist[p].written = {}
    /\ ~logs[1].ok
    /\ \E k \in 1..Len(disk) :
         /\ disk[k].name = replaceExtension(logs[1].source, WEBP_EXT)
         /\ disk[k].valid

====
